---- MODULE Spec2Model ----
(***************************************************************************)
(* A model of actflow-server: the shutdown coordinator                     *)
(* (src/common/shutdown.rs) and the gRPC workflow service with its         *)
(* callback-to-stream bridge (src/server/server.rs).                       *)
(*                                                                         *)
(* Two libraries the code is built on are modelled by their documented     *)
(* behaviour:                                                              *)
(*  - tokio::sync::Notify: notified() records the number of                *)
(*    notify_waiters() calls made so far; the first poll of the future     *)
(*    completes when that number has changed and otherwise puts the task   *)
(*    on the waiter list; notify_waiters() counts the call and wakes       *)
(*    every task on the list.                                              *)
(*  - tokio::sync::mpsc::channel(n): a FIFO of at most n items guarded by  *)
(*    a fair semaphore; send() completes at once when a slot is free and   *)
(*    nobody queues, fails when the receiver is gone, and otherwise        *)
(*    suspends in FIFO order until recv() frees a slot.                    *)
(***************************************************************************)
EXTENDS Integers, Sequences, FiniteSets, TLC

\* ------------------------------------------------------------------------
\* Bounds of the model
\* ------------------------------------------------------------------------
\* wait() futures, threads that call shutdown(), shutdown() calls in a run
MaxWaiters == 2
MaxSignalers == 2
MaxShutdowns == 2

\* Callback invocations and StopWorkflow calls in a run
MaxInvocations == 3
MaxStops == 1
\* reset() calls in a run
MaxResets == 1
\* Requests the server has in service at a time
MaxRequests == 3
\* Callback invocations in a run in which the engine emits every variant.
\* The queue is never full there: this bound is at most Capacity.
MaxKindInvocations == 2
\* Callback invocations in a run in which the engine emits in bursts: two
\* above Capacity, so that two sends wait for a slot at once
MaxBurst == 4
\* Engine items translated in a run of the translation alone
MaxTranslations == 2
\* The slots of the outbound queue.  The code creates it with
\* mpsc::channel(100) (src/server/server.rs:45); the model keeps the queue
\* bounded and scales the number of slots down.
Capacity == 2

Waiters == 1..MaxWaiters
Signalers == 1..MaxSignalers
\* The RunWorkflow calls of a run.  Every call gets a channel and a pair of
\* callbacks of its own.
Calls == {1}
\* The calls of a run with two concurrent RunWorkflow calls.  The server has
\* room for both in every run; a run with one call leaves the second idle.
PairCalls == {1, 2}
\* The engine gives every built process its own id: the process built by
\* call c has id c.  0 is an id the engine never gave out.
Pids == Calls
UnknownPid == 0
NodeIds == {"n1"}
BuildErrors == {"cyclic graph", "unknown node type"}

VARIABLES
    \* ---- Shutdown (src/common/shutdown.rs) ----
    flag,           \* inner.0 : AtomicBool
    notifyCalls,    \* inner.1 : Notify, its count of notify_waiters() calls
    notifyWaiters,  \* inner.1 : Notify, the tasks on its waiter list
    waitPc,         \* position of each wait() future
    waitSnap,       \* the count each Notified future recorded at creation
    waitFirst,      \* what the first flag check of each wait() read
    waitEpoch,      \* how many shutdown() calls had begun at that check
    waitSubscribed, \* whether the wait() created a Notified future
    waitSuspended,  \* whether the wait() was ever put on the waiter list
    waitHow,        \* which branch resolved the wait()
    sigPc,          \* position of each thread calling shutdown()
    swaps,          \* shutdown() calls begun (flag swap executed)
    signals,        \* shutdown() calls completed
    resets,         \* reset() calls
    observed,       \* the last value is_terminated() returned
    \* ---- WorkflowServer (src/server/server.rs) ----
    rpc,            \* position of each RunWorkflow call
    rpcStatus,      \* what each RunWorkflow call returned
    procState,      \* the engine's process of each call
    builds,         \* engine.build_workflow_process calls made by each call
    chanCreated,    \* whether the call created its mpsc channel
    evReg,          \* whether the event callback of the pid is registered
    logReg,         \* whether the log callback of the pid is registered
    queue,          \* the buffered items of each channel
    rxAlive,        \* whether the Receiver of each channel still exists
    sendWaiters,    \* the senders queued on each channel's semaphore
    delivered,      \* the items the consumer of each stream has received
    streamEnded,    \* whether the consumer has seen end-of-stream
    invs,           \* the callback invocations, in the order of invocation
    missed,         \* events and logs emitted with no callback registered
    request,        \* the workflow_model payload each call received
    buildResult,    \* what the engine answered to each call's build
    stopRequests,   \* StopWorkflow requests served
    stopCalls,      \* engine.stop calls made
    stopResp,       \* what the last StopWorkflow request returned
    stopEngine,     \* what the last engine.stop call answered
    \* ---- run (src/runner.rs) and start_server (src/server/mod.rs) ----
    runPc,          \* position of run()
    serverTask,     \* the server_task future
    sigint,         \* the ctrl_c() future
    inflight,       \* requests the server has accepted and not completed
    runResult,      \* what run() returned
    \* ---- the translation alone (src/server/server.rs) ----
    translations    \* engine items handed to a callback, with their wire items

shutdownVars == << flag, notifyCalls, notifyWaiters, waitPc, waitSnap, waitFirst,
                   waitEpoch, waitSubscribed, waitSuspended, waitHow, sigPc,
                   swaps, signals, resets, observed >>

serverVars == << rpc, rpcStatus, procState, builds, chanCreated, evReg, logReg,
                 queue, rxAlive, sendWaiters, delivered, streamEnded, invs,
                 missed, request, buildResult, stopRequests, stopCalls,
                 stopResp, stopEngine >>

runnerVars == << runPc, serverTask, sigint, inflight, runResult >>

translateVars == << translations >>

vars == << shutdownVars, serverVars, runnerVars, translateVars >>

\* ------------------------------------------------------------------------
\* Shutdown::new
\* ------------------------------------------------------------------------
ShutdownNew ==
    /\ flag = FALSE
    /\ notifyCalls = 0
    /\ notifyWaiters = {}
    /\ waitPc = [w \in Waiters |-> "idle"]
    /\ waitSnap = [w \in Waiters |-> 0]
    /\ waitFirst = [w \in Waiters |-> FALSE]
    /\ waitEpoch = [w \in Waiters |-> 0]
    /\ waitSubscribed = [w \in Waiters |-> FALSE]
    /\ waitSuspended = [w \in Waiters |-> FALSE]
    /\ waitHow = [w \in Waiters |-> "none"]
    /\ sigPc = [s \in Signalers |-> "idle"]
    /\ swaps = 0
    /\ signals = 0
    /\ resets = 0
    /\ observed = "none"

\* ------------------------------------------------------------------------
\* Shutdown::shutdown: self.inner.0.swap(true, Relaxed), then
\* self.inner.1.notify_waiters().  Two steps of the calling thread; the
\* waiter list and the call count are updated under the Notify's lock, and
\* that lock orders the relaxed flag accesses, so interleaving of atomic
\* steps is the whole behaviour.
\* ------------------------------------------------------------------------
SwapToggle(old) == ~old

SwapTrue(old) == TRUE

ShutdownSwap(s) ==
    /\ sigPc[s] = "idle"
    /\ swaps < MaxShutdowns
    /\ flag' = SwapTrue(flag)
    /\ swaps' = swaps + 1
    /\ sigPc' = [sigPc EXCEPT ![s] = "notify"]
    /\ UNCHANGED << notifyCalls, notifyWaiters, waitPc, waitSnap, waitFirst,
                    waitEpoch, waitSubscribed, waitSuspended, waitHow,
                    signals, resets, observed >>
    /\ UNCHANGED serverVars
    /\ UNCHANGED << runnerVars, translateVars >>

ShutdownNotify(s) ==
    /\ sigPc[s] = "notify"
    /\ notifyCalls' = notifyCalls + 1
    /\ notifyWaiters' = {}
    /\ signals' = signals + 1
    /\ sigPc' = [sigPc EXCEPT ![s] = "idle"]
    /\ UNCHANGED << flag, waitPc, waitSnap, waitFirst, waitEpoch,
                    waitSubscribed, waitSuspended, waitHow, swaps, resets,
                    observed >>
    /\ UNCHANGED serverVars
    /\ UNCHANGED << runnerVars, translateVars >>

\* A reset that leaves the flag as it finds it
ShutdownResetKeepsFlag ==
    /\ flag' = flag
    /\ resets' = resets + 1
    /\ UNCHANGED << notifyCalls, notifyWaiters, waitPc, waitSnap, waitFirst,
                    waitEpoch, waitSubscribed, waitSuspended, waitHow, sigPc,
                    swaps, signals, observed >>
    /\ UNCHANGED serverVars
    /\ UNCHANGED << runnerVars, translateVars >>

\* Shutdown::reset
ShutdownReset ==
    /\ flag' = FALSE
    /\ resets' = resets + 1
    /\ UNCHANGED << notifyCalls, notifyWaiters, waitPc, waitSnap, waitFirst,
                    waitEpoch, waitSubscribed, waitSuspended, waitHow, sigPc,
                    swaps, signals, observed >>
    /\ UNCHANGED serverVars
    /\ UNCHANGED << runnerVars, translateVars >>

\* Shutdown::is_terminated is a load of the flag
IsTerminatedSwaps ==
    /\ observed' = IF flag THEN "true" ELSE "false"
    /\ flag' = FALSE
    /\ UNCHANGED << notifyCalls, notifyWaiters, waitPc, waitSnap,
                    waitFirst, waitEpoch, waitSubscribed, waitSuspended,
                    waitHow, sigPc, swaps, signals, resets >>
    /\ UNCHANGED serverVars
    /\ UNCHANGED << runnerVars, translateVars >>

IsTerminated ==
    /\ observed' = IF flag THEN "true" ELSE "false"
    /\ UNCHANGED << flag, notifyCalls, notifyWaiters, waitPc, waitSnap,
                    waitFirst, waitEpoch, waitSubscribed, waitSuspended,
                    waitHow, sigPc, swaps, signals, resets >>
    /\ UNCHANGED serverVars
    /\ UNCHANGED << runnerVars, translateVars >>

\* ------------------------------------------------------------------------
\* Shutdown::wait, one action per step of the future
\* ------------------------------------------------------------------------
Resolve(w, how) ==
    /\ waitPc' = [waitPc EXCEPT ![w] = "done"]
    /\ waitHow' = [waitHow EXCEPT ![w] = how]

\* if !inner.0.load(Relaxed) {            (the initial fast check)
WaitCheck1Subscribes(w) ==
    /\ waitPc[w] = "idle"
    /\ waitFirst' = [waitFirst EXCEPT ![w] = flag]
    /\ waitEpoch' = [waitEpoch EXCEPT ![w] = swaps]
    /\ waitPc' = [waitPc EXCEPT ![w] = "notified"]
    /\ UNCHANGED << flag, notifyCalls, notifyWaiters, waitSnap, waitHow,
                    waitSubscribed, waitSuspended, sigPc, swaps, signals,
                    resets, observed >>
    /\ UNCHANGED serverVars
    /\ UNCHANGED << runnerVars, translateVars >>

WaitCheck1(w) ==
    /\ waitPc[w] = "idle"
    /\ waitFirst' = [waitFirst EXCEPT ![w] = flag]
    /\ waitEpoch' = [waitEpoch EXCEPT ![w] = swaps]
    /\ IF flag
         THEN Resolve(w, "check1")
         ELSE /\ waitPc' = [waitPc EXCEPT ![w] = "notified"]
              /\ UNCHANGED waitHow
    /\ UNCHANGED << flag, notifyCalls, notifyWaiters, waitSnap,
                    waitSubscribed, waitSuspended, sigPc, swaps, signals,
                    resets, observed >>
    /\ UNCHANGED serverVars
    /\ UNCHANGED << runnerVars, translateVars >>

\* let notify = inner.1.notified();
WaitNotified(w) ==
    /\ waitPc[w] = "notified"
    /\ waitSnap' = [waitSnap EXCEPT ![w] = notifyCalls]
    /\ waitSubscribed' = [waitSubscribed EXCEPT ![w] = TRUE]
    /\ waitPc' = [waitPc EXCEPT ![w] = "check2"]
    /\ UNCHANGED << flag, notifyCalls, notifyWaiters, waitFirst, waitEpoch,
                    waitSuspended, waitHow, sigPc, swaps, signals, resets,
                    observed >>
    /\ UNCHANGED serverVars
    /\ UNCHANGED << runnerVars, translateVars >>

\* if !inner.0.load(Relaxed) {            (the second check)
WaitCheck2Skipped(w) ==
    /\ waitPc[w] = "check2"
    /\ waitPc' = [waitPc EXCEPT ![w] = "await"]
    /\ UNCHANGED << flag, notifyCalls, notifyWaiters, waitSnap, waitFirst,
                    waitEpoch, waitSubscribed, waitSuspended, waitHow, sigPc,
                    swaps, signals, resets, observed >>
    /\ UNCHANGED serverVars
    /\ UNCHANGED << runnerVars, translateVars >>

WaitCheck2(w) ==
    /\ waitPc[w] = "check2"
    /\ IF flag
         THEN Resolve(w, "check2")
         ELSE /\ waitPc' = [waitPc EXCEPT ![w] = "await"]
              /\ UNCHANGED waitHow
    /\ UNCHANGED << flag, notifyCalls, notifyWaiters, waitSnap, waitFirst,
                    waitEpoch, waitSubscribed, waitSuspended, sigPc, swaps,
                    signals, resets, observed >>
    /\ UNCHANGED serverVars
    /\ UNCHANGED << runnerVars, translateVars >>

\* notify.await, its first poll: complete when notify_waiters() was called
\* since notified(), otherwise join the waiter list
WaitAwait(w) ==
    /\ waitPc[w] = "await"
    /\ IF notifyCalls # waitSnap[w]
         THEN /\ Resolve(w, "enabled")
              /\ UNCHANGED << notifyWaiters, waitSuspended >>
         ELSE /\ notifyWaiters' = notifyWaiters \cup {w}
              /\ waitSuspended' = [waitSuspended EXCEPT ![w] = TRUE]
              /\ waitPc' = [waitPc EXCEPT ![w] = "suspended"]
              /\ UNCHANGED waitHow
    /\ UNCHANGED << flag, notifyCalls, waitSnap, waitFirst, waitEpoch,
                    waitSubscribed, sigPc, swaps, signals, resets, observed >>
    /\ UNCHANGED serverVars
    /\ UNCHANGED << runnerVars, translateVars >>

\* notify.await, the poll after notify_waiters() took the task off the list
WaitWake(w) ==
    /\ waitPc[w] = "suspended"
    /\ w \notin notifyWaiters
    /\ Resolve(w, "woken")
    /\ UNCHANGED << flag, notifyCalls, notifyWaiters, waitSnap, waitFirst,
                    waitEpoch, waitSubscribed, waitSuspended, sigPc, swaps,
                    signals, resets, observed >>
    /\ UNCHANGED serverVars
    /\ UNCHANGED << runnerVars, translateVars >>

WaitStep(w) ==
    WaitCheck1(w) \/ WaitNotified(w) \/ WaitCheck2(w) \/ WaitAwait(w) \/ WaitWake(w)

ShutdownNext ==
    \/ \E s \in Signalers : ShutdownSwap(s) \/ ShutdownNotify(s)
    \/ IsTerminated
    \/ \E w \in Waiters : WaitStep(w)

\* reset() as it is meant to be used: called while no wait() is in flight
ResetBetweenWaits ==
    /\ resets < MaxResets
    /\ \A w \in Waiters : waitPc[w] \in {"idle", "done"}
    /\ ShutdownReset

ResetNext == ShutdownNext \/ ResetBetweenWaits

\* ------------------------------------------------------------------------
\* The engine's events and logs, and their translation to wire items
\* (handle_workflow_events, the match; handle_workflow_logs, the literal)
\* ------------------------------------------------------------------------
WorkflowVariants == {"Start", "Succeeded", "Failed", "Aborted", "Paused"}
NodeVariants == {"Running", "Stopped", "Paused", "Skipped", "Succeeded", "Error", "Retry"}

EventKinds ==
    ({"Workflow"} \X WorkflowVariants) \cup ({"Node"} \X NodeVariants)

\* The payload an engine event of a kind carries (an error, a reason, ...)
PayloadOf(kind) ==
    CASE kind = << "Workflow", "Failed" >>  -> "node n1 failed"
      [] kind = << "Workflow", "Aborted" >> -> "stopped by user"
      [] kind = << "Workflow", "Paused" >>  -> "waiting for input"
      [] kind = << "Node", "Paused" >>      -> "waiting for input"
      [] kind = << "Node", "Error" >>       -> "timeout"
      [] OTHER                              -> ""

EngineEvent(pid, nid, kind) ==
    [pid |-> pid, nid |-> nid, family |-> kind[1], variant |-> kind[2],
     payload |-> PayloadOf(kind)]

EngineLog(pid, nid) ==
    [pid |-> pid, nid |-> nid, content |-> "log line", timestamp |-> 7]

TranslateEvent(event) ==
    CASE event.family = "Workflow" /\ event.variant = "Start" ->
            [variant |-> "WorkflowStart", process_id |-> event.pid]
      [] event.family = "Workflow" /\ event.variant = "Succeeded" ->
            [variant |-> "WorkflowSuccess", process_id |-> event.pid]
      [] event.family = "Workflow" /\ event.variant = "Failed" ->
            [variant |-> "WorkflowFailure", process_id |-> event.pid,
             error_message |-> event.payload]
      [] event.family = "Workflow" /\ event.variant = "Aborted" ->
            [variant |-> "WorkflowAbort", process_id |-> event.pid,
             reason |-> event.payload]
      [] event.family = "Workflow" /\ event.variant = "Paused" ->
            [variant |-> "WorkflowPause", process_id |-> event.pid,
             reason |-> event.payload]
      [] event.family = "Node" /\ event.variant = "Running" ->
            [variant |-> "NodeRunning", process_id |-> event.pid,
             node_id |-> event.nid]
      [] event.family = "Node" /\ event.variant = "Stopped" ->
            [variant |-> "NodeStopped", process_id |-> event.pid,
             node_id |-> event.nid]
      [] event.family = "Node" /\ event.variant = "Paused" ->
            [variant |-> "NodePaused", process_id |-> event.pid,
             node_id |-> event.nid, reason |-> ""]
      [] event.family = "Node" /\ event.variant = "Skipped" ->
            [variant |-> "NodeSkipped", process_id |-> event.pid,
             node_id |-> event.nid]
      [] event.family = "Node" /\ event.variant = "Succeeded" ->
            [variant |-> "NodeSuccess", process_id |-> event.pid,
             node_id |-> event.nid]
      [] event.family = "Node" /\ event.variant = "Error" ->
            [variant |-> "NodeError", process_id |-> event.pid,
             node_id |-> event.nid, error_message |-> event.payload]
      [] event.family = "Node" /\ event.variant = "Retry" ->
            [variant |-> "NodeRetry", process_id |-> event.pid,
             node_id |-> event.nid]

\* A log item built without the node of the record
TranslateLogWithoutNode(log) ==
    [variant |-> "NodeLog", process_id |-> log.pid, node_id |-> "",
     log_message |-> log.content, timestamp |-> log.timestamp]

TranslateLog(log) ==
    [variant |-> "NodeLog", process_id |-> log.pid, node_id |-> log.nid,
     log_message |-> log.content, timestamp |-> log.timestamp]

\* The wire variants that end a workflow (spec.md, section 3)
TerminalVariants == {"WorkflowSuccess", "WorkflowFailure", "WorkflowAbort"}

IsTerminalItem(item) == item.variant \in TerminalVariants

\* ------------------------------------------------------------------------
\* WorkflowServer, the state after construction: no call made yet
\* ------------------------------------------------------------------------
NoStatus == [code |-> "none", message |-> << "", "" >>]

ServerNew ==
    /\ rpc = [c \in PairCalls |-> "idle"]
    /\ rpcStatus = [c \in PairCalls |-> NoStatus]
    /\ procState = [c \in PairCalls |-> "none"]
    /\ builds = [c \in PairCalls |-> 0]
    /\ chanCreated = [c \in PairCalls |-> FALSE]
    /\ evReg = [c \in PairCalls |-> FALSE]
    /\ logReg = [c \in PairCalls |-> FALSE]
    /\ queue = [c \in PairCalls |-> << >>]
    /\ rxAlive = [c \in PairCalls |-> FALSE]
    /\ sendWaiters = [c \in PairCalls |-> << >>]
    /\ delivered = [c \in PairCalls |-> << >>]
    /\ streamEnded = [c \in PairCalls |-> FALSE]
    /\ invs = << >>
    /\ missed = 0
    /\ request = [c \in PairCalls |-> "none"]
    /\ buildResult = [c \in PairCalls |-> "none"]
    /\ stopRequests = 0
    /\ stopCalls = 0
    /\ stopResp = [code |-> "none", success |-> FALSE, error_message |-> "no call"]
    /\ stopEngine = "no call"

\* run() has created the coordinator, the server_task future and the
\* ctrl_c() future, and is about to poll them in select!
RunnerNew ==
    /\ runPc = "select"
    /\ serverTask = "created"
    /\ sigint = "pending"
    /\ inflight = 0
    /\ runResult = "none"

TranslateNew == translations = << >>

Init == ShutdownNew /\ ServerNew /\ RunnerNew /\ TranslateNew

\* ------------------------------------------------------------------------
\* WorkflowServer::run_workflow, one action per interaction with the engine
\* ------------------------------------------------------------------------
Payloads == {"missing", "malformed", "valid"}

Fail(c, code, message) ==
    /\ rpc' = [rpc EXCEPT ![c] = "error"]
    /\ rpcStatus' = [rpcStatus EXCEPT ![c] = [code |-> code, message |-> message]]

\* request.workflow_model.ok_or_else(..)?  and  serde_json::from_value(..)?
\* A missing payload taken for an empty model
ParseResultDefaultsMissing(payload) ==
    IF payload = "malformed"
      THEN [ok |-> FALSE,
            message |-> << "Invalid workflow model: ", "missing field nodes" >>]
      ELSE [ok |-> TRUE, message |-> << "", "" >>]

ParseResult(payload) ==
    IF payload = "missing"
      THEN [ok |-> FALSE, message |-> << "Missing workflow model", "" >>]
      ELSE IF payload = "malformed"
        THEN [ok |-> FALSE,
              message |-> << "Invalid workflow model: ", "missing field nodes" >>]
        ELSE [ok |-> TRUE, message |-> << "", "" >>]

RunParse(c, payload) ==
    /\ rpc[c] = "idle"
    /\ request' = [request EXCEPT ![c] = payload]
    /\ IF ParseResult(payload).ok
         THEN /\ rpc' = [rpc EXCEPT ![c] = "parsed"]
              /\ UNCHANGED rpcStatus
         ELSE Fail(c, "invalid_argument", ParseResult(payload).message)
    /\ UNCHANGED << procState, builds, chanCreated, evReg, logReg, queue,
                    rxAlive, sendWaiters, delivered, streamEnded, invs,
                    missed, stopCalls, stopResp >>
    /\ UNCHANGED << buildResult, stopRequests, stopEngine >>
    /\ UNCHANGED shutdownVars
    /\ UNCHANGED << runnerVars, translateVars >>

\* self.engine.build_workflow_process(&workflow_model).map_err(..)?
\* The engine builds the process or refuses with a message of its own.
\* Status::internal(format!("Failed to build workflow process: {}", e))
BuildStatusWithoutCause(e) ==
    [code |-> "internal", message |-> << "Failed to build workflow process: ", "" >>]

BuildStatus(e) ==
    [code |-> "internal", message |-> << "Failed to build workflow process: ", e >>]

RunBuild(c, outcome) ==
    /\ rpc[c] = "parsed"
    /\ buildResult' = [buildResult EXCEPT ![c] = outcome]
    /\ builds' = [builds EXCEPT ![c] = @ + 1]
    /\ IF outcome = "ok"
         THEN /\ rpc' = [rpc EXCEPT ![c] = "built"]
              /\ procState' = [procState EXCEPT ![c] = "built"]
              /\ UNCHANGED rpcStatus
         ELSE /\ Fail(c, BuildStatus(outcome).code, BuildStatus(outcome).message)
              /\ UNCHANGED procState
    /\ UNCHANGED << chanCreated, evReg, logReg, queue, rxAlive, sendWaiters,
                    delivered, streamEnded, invs, missed, stopCalls, stopResp >>
    /\ UNCHANGED << request, stopRequests, stopEngine >>
    /\ UNCHANGED shutdownVars
    /\ UNCHANGED << runnerVars, translateVars >>

\* The process started as soon as the first callback is registered
RunOnEventThenStart(c) ==
    /\ rpc[c] = "built"
    /\ chanCreated' = [chanCreated EXCEPT ![c] = TRUE]
    /\ rxAlive' = [rxAlive EXCEPT ![c] = TRUE]
    /\ evReg' = [evReg EXCEPT ![c] = TRUE]
    /\ procState' = [procState EXCEPT ![c] = "running"]
    /\ rpc' = [rpc EXCEPT ![c] = "evreg"]
    /\ UNCHANGED << rpcStatus, builds, logReg, queue, sendWaiters,
                    delivered, streamEnded, invs, missed, stopCalls, stopResp >>
    /\ UNCHANGED << request, buildResult, stopRequests, stopEngine >>
    /\ UNCHANGED shutdownVars
    /\ UNCHANGED << runnerVars, translateVars >>

\* let (tx, rx) = mpsc::channel(100); let tx_event = tx.clone();
\* ChannelEvent::channel(.., with_pid(pid)).on_event_async(..)
RunOnEvent(c) ==
    /\ rpc[c] = "built"
    /\ chanCreated' = [chanCreated EXCEPT ![c] = TRUE]
    /\ rxAlive' = [rxAlive EXCEPT ![c] = TRUE]
    /\ evReg' = [evReg EXCEPT ![c] = TRUE]
    /\ rpc' = [rpc EXCEPT ![c] = "evreg"]
    /\ UNCHANGED << rpcStatus, procState, builds, logReg, queue, sendWaiters,
                    delivered, streamEnded, invs, missed, stopCalls, stopResp >>
    /\ UNCHANGED << request, buildResult, stopRequests, stopEngine >>
    /\ UNCHANGED shutdownVars
    /\ UNCHANGED << runnerVars, translateVars >>

\* let tx_log = tx; ChannelEvent::channel(..).on_log_async(..)
RunOnLog(c) ==
    /\ rpc[c] = "evreg"
    /\ logReg' = [logReg EXCEPT ![c] = TRUE]
    /\ rpc' = [rpc EXCEPT ![c] = "logreg"]
    /\ UNCHANGED << rpcStatus, procState, builds, chanCreated, evReg, queue,
                    rxAlive, sendWaiters, delivered, streamEnded, invs,
                    missed, stopCalls, stopResp >>
    /\ UNCHANGED << request, buildResult, stopRequests, stopEngine >>
    /\ UNCHANGED shutdownVars
    /\ UNCHANGED << runnerVars, translateVars >>

\* porc.start();
RunStart(c) ==
    /\ rpc[c] = "logreg"
    /\ procState' = [procState EXCEPT ![c] = "running"]
    /\ rpc' = [rpc EXCEPT ![c] = "started"]
    /\ UNCHANGED << rpcStatus, builds, chanCreated, evReg, logReg, queue,
                    rxAlive, sendWaiters, delivered, streamEnded, invs,
                    missed, stopCalls, stopResp >>
    /\ UNCHANGED << request, buildResult, stopRequests, stopEngine >>
    /\ UNCHANGED shutdownVars
    /\ UNCHANGED << runnerVars, translateVars >>

\* Ok(Response::new(ReceiverStream::new(rx)))
RunReturn(c) ==
    /\ rpc[c] = "started"
    /\ rpc' = [rpc EXCEPT ![c] = "streaming"]
    /\ rpcStatus' = [rpcStatus EXCEPT ![c] =
                        [code |-> "ok", message |-> << "stream", "" >>]]
    /\ UNCHANGED << procState, builds, chanCreated, evReg, logReg, queue,
                    rxAlive, sendWaiters, delivered, streamEnded, invs,
                    missed, stopCalls, stopResp >>
    /\ UNCHANGED << request, buildResult, stopRequests, stopEngine >>
    /\ UNCHANGED shutdownVars
    /\ UNCHANGED << runnerVars, translateVars >>

\* ------------------------------------------------------------------------
\* The engine invokes the registered callbacks: the closure given to
\* on_event_async / on_log_async clones its Sender and returns the future
\* that runs handle_workflow_events / handle_workflow_logs.  The engine may
\* have several of these futures in flight at once.
\* ------------------------------------------------------------------------
\* late: the Receiver was gone when the callback was invoked
Invocation(pid, source, item) ==
    [pid |-> pid, source |-> source, item |-> item, pc |-> "created",
     late |-> ~rxAlive[pid]]

Emittable(p) ==
    /\ procState[p] \in {"running", "stopped"}
    /\ Len(invs) + missed < MaxInvocations

\* The engine has an event of a process: it invokes the event callback
\* registered for the pid, if there is one
InvokeEvent(p, nid, kind) ==
    /\ IF evReg[p]
         THEN /\ invs' = Append(invs, Invocation(p, "event",
                                   TranslateEvent(EngineEvent(p, nid, kind))))
              /\ UNCHANGED missed
         ELSE /\ missed' = missed + 1
              /\ UNCHANGED invs
    /\ UNCHANGED << rpc, rpcStatus, procState, builds, chanCreated, evReg,
                    logReg, queue, rxAlive, sendWaiters, delivered,
                    streamEnded, stopCalls, stopResp >>
    /\ UNCHANGED << request, buildResult, stopRequests, stopEngine >>
    /\ UNCHANGED shutdownVars
    /\ UNCHANGED << runnerVars, translateVars >>

EmitEvent(p, nid, kind) ==
    /\ Emittable(p)
    /\ InvokeEvent(p, nid, kind)

\* The same for a log record and the log callback
InvokeLog(p, nid) ==
    /\ IF logReg[p]
         THEN /\ invs' = Append(invs, Invocation(p, "log",
                                   TranslateLog(EngineLog(p, nid))))
              /\ UNCHANGED missed
         ELSE /\ missed' = missed + 1
              /\ UNCHANGED invs
    /\ UNCHANGED << rpc, rpcStatus, procState, builds, chanCreated, evReg,
                    logReg, queue, rxAlive, sendWaiters, delivered,
                    streamEnded, stopCalls, stopResp >>
    /\ UNCHANGED << request, buildResult, stopRequests, stopEngine >>
    /\ UNCHANGED shutdownVars
    /\ UNCHANGED << runnerVars, translateVars >>

EmitLog(p, nid) ==
    /\ Emittable(p)
    /\ InvokeLog(p, nid)

\* ------------------------------------------------------------------------
\* tx.send(Ok(item)).await in handle_workflow_events / handle_workflow_logs
\* ------------------------------------------------------------------------
InFlight(p) ==
    {i \in DOMAIN invs : invs[i].pid = p /\ invs[i].pc \in {"created", "waiting", "granted"}}

Granted(p) ==
    {i \in DOMAIN invs : invs[i].pid = p /\ invs[i].pc = "granted"}

\* The Sender handles of a channel: the local tx until it is moved into the
\* log closure, one in each registered closure, one in each running future
Senders(p) ==
    (IF rpc[p] = "evreg" THEN 1 ELSE 0) + (IF evReg[p] THEN 1 ELSE 0)
      + (IF logReg[p] THEN 1 ELSE 0) + Cardinality(InFlight(p))

FreeSlots(p) == Capacity - Len(queue[p]) - Cardinality(Granted(p))

\* A channel without a capacity (mpsc::unbounded_channel)
SendOutcomeUnbounded(p) ==
    IF ~rxAlive[p] THEN "closed" ELSE "ready"

\* try_send in place of send: the item is given up when the queue is full
SendOutcomeDropsWhenFull(p) ==
    IF ~rxAlive[p] THEN "closed"
    ELSE IF FreeSlots(p) > 0 THEN "ready" ELSE "closed"

\* A sink that a node's success closes, as the workflow's success would
SendOutcomeNodeSuccessCloses(p) ==
    IF ~rxAlive[p] THEN "closed"
    ELSE IF \E k \in DOMAIN (delivered[p] \o queue[p]) :
              (delivered[p] \o queue[p])[k].item.variant = "NodeSuccess"
      THEN "closed"
    ELSE IF FreeSlots(p) > 0 THEN "ready" ELSE "full"

SendOutcome(p) ==
    IF ~rxAlive[p] THEN "closed"
    ELSE IF FreeSlots(p) > 0 THEN "ready" ELSE "full"

Enqueue(q, entry) == Append(q, entry)

\* if let Err(e) = .. { eprintln!(..) }: the error is printed, nothing else
OnSendErrorStops(p) ==
    /\ stopCalls' = stopCalls + 1
    /\ UNCHANGED << procState, stopResp >>

OnSendError(p) == UNCHANGED << stopCalls, procState, stopResp >>

\* The first poll of the send
SendPoll(i) ==
    /\ i \in DOMAIN invs
    /\ invs[i].pc = "created"
    /\ LET p == invs[i].pid
           out == SendOutcome(p)
       IN  /\ invs' = [invs EXCEPT ![i].pc =
                         CASE out = "closed" -> "failed"
                           [] out = "ready"  -> "sent"
                           [] out = "full"   -> "waiting"]
           /\ queue' = IF out = "ready"
                         THEN [queue EXCEPT ![p] =
                                 Enqueue(@, [seq |-> i, item |-> invs[i].item])]
                         ELSE queue
           /\ sendWaiters' = IF out = "full"
                               THEN [sendWaiters EXCEPT ![p] = Append(@, i)]
                               ELSE sendWaiters
           /\ IF out = "closed"
                THEN OnSendError(p)
                ELSE UNCHANGED << stopCalls, procState, stopResp >>
    /\ UNCHANGED << rpc, rpcStatus, builds, chanCreated, evReg, logReg,
                    rxAlive, delivered, streamEnded, missed >>
    /\ UNCHANGED << request, buildResult, stopRequests, stopEngine >>
    /\ UNCHANGED shutdownVars
    /\ UNCHANGED << runnerVars, translateVars >>

\* Senders that the drop of the Receiver does not wake
ResumableOnGrantOnly(i) == invs[i].pc = "granted"

\* A suspended send is polled again once recv() handed it a slot or the
\* Receiver was dropped
Resumable(i) ==
    IF invs[i].pc = "granted" THEN TRUE
    ELSE invs[i].pc = "waiting" /\ ~rxAlive[invs[i].pid]

SendResume(i) ==
    /\ i \in DOMAIN invs
    /\ Resumable(i)
    /\ LET p == invs[i].pid
       IN  IF rxAlive[p]
             THEN /\ invs' = [invs EXCEPT ![i].pc = "sent"]
                  /\ queue' = [queue EXCEPT ![p] =
                                 Enqueue(@, [seq |-> i, item |-> invs[i].item])]
                  /\ UNCHANGED << stopCalls, procState, stopResp >>
             ELSE /\ invs' = [invs EXCEPT ![i].pc = "failed"]
                  /\ UNCHANGED queue
                  /\ OnSendError(p)
    /\ UNCHANGED << rpc, rpcStatus, builds, chanCreated, evReg, logReg,
                    rxAlive, sendWaiters, delivered, streamEnded, missed >>
    /\ UNCHANGED << request, buildResult, stopRequests, stopEngine >>
    /\ UNCHANGED shutdownVars
    /\ UNCHANGED << runnerVars, translateVars >>

\* ------------------------------------------------------------------------
\* The consumer of the stream RunWorkflow returned (ReceiverStream)
\* ------------------------------------------------------------------------
\* poll_next: the next buffered item, whose slot goes to the first queued
\* sender; end-of-stream once the queue is empty and no Sender is left
StreamRecv(p) ==
    /\ rpc[p] = "streaming"
    /\ rxAlive[p]
    /\ ~streamEnded[p]
    /\ IF queue[p] # << >>
         THEN /\ delivered' = [delivered EXCEPT ![p] = Append(@, Head(queue[p]))]
              /\ queue' = [queue EXCEPT ![p] = Tail(@)]
              /\ IF sendWaiters[p] # << >>
                   THEN /\ invs' = [invs EXCEPT ![Head(sendWaiters[p])].pc = "granted"]
                        /\ sendWaiters' = [sendWaiters EXCEPT ![p] = Tail(@)]
                   ELSE UNCHANGED << invs, sendWaiters >>
              /\ UNCHANGED streamEnded
         ELSE /\ Senders(p) = 0
              /\ streamEnded' = [streamEnded EXCEPT ![p] = TRUE]
              /\ UNCHANGED << delivered, queue, invs, sendWaiters >>
    /\ UNCHANGED << rpc, rpcStatus, procState, builds, chanCreated, evReg,
                    logReg, rxAlive, missed, stopCalls, stopResp >>
    /\ UNCHANGED << request, buildResult, stopRequests, stopEngine >>
    /\ UNCHANGED shutdownVars
    /\ UNCHANGED << runnerVars, translateVars >>

\* The client goes away: the stream, and the Receiver in it, is dropped.
\* Dropping the Receiver closes the channel, wakes the queued senders and
\* discards what is buffered.
DropStream(p) ==
    /\ rpc[p] = "streaming"
    /\ rxAlive[p]
    /\ rxAlive' = [rxAlive EXCEPT ![p] = FALSE]
    /\ queue' = [queue EXCEPT ![p] = << >>]
    /\ sendWaiters' = [sendWaiters EXCEPT ![p] = << >>]
    /\ UNCHANGED << rpc, rpcStatus, procState, builds, chanCreated, evReg,
                    logReg, delivered, streamEnded, invs, missed, stopCalls,
                    stopResp >>
    /\ UNCHANGED << request, buildResult, stopRequests, stopEngine >>
    /\ UNCHANGED shutdownVars
    /\ UNCHANGED << runnerVars, translateVars >>

\* ------------------------------------------------------------------------
\* WorkflowServer::stop_workflow.  The engine stops a running process and
\* refuses any other id with a message of its own.
\* ------------------------------------------------------------------------
EngineStopResult(pid) ==
    IF pid \in Pids /\ procState[pid] = "running" THEN "ok"
    ELSE IF pid \in Pids /\ procState[pid] = "stopped" THEN "process already stopped"
    ELSE "process not found"

\* Both arms of the match answer Ok(Response): the engine's refusal travels
\* in the response, never as a Status.
StopResponseAsStatus(res) ==
    IF res = "ok"
      THEN [code |-> "ok", success |-> TRUE, error_message |-> ""]
      ELSE [code |-> "internal", success |-> FALSE, error_message |-> res]

StopResponse(res) ==
    IF res = "ok"
      THEN [code |-> "ok", success |-> TRUE, error_message |-> ""]
      ELSE [code |-> "ok", success |-> FALSE, error_message |-> res]

StopWorkflow(pid) ==
    /\ stopCalls < MaxStops
    /\ stopRequests' = stopRequests + 1
    /\ stopCalls' = stopCalls + 1
    /\ LET res == EngineStopResult(pid)
       IN  /\ procState' = IF res = "ok"
                              THEN [procState EXCEPT ![pid] = "stopped"]
                              ELSE procState
           /\ stopEngine' = res
           /\ stopResp' = StopResponse(res)
    /\ UNCHANGED << rpc, rpcStatus, builds, chanCreated, evReg, logReg, queue,
                    rxAlive, sendWaiters, delivered, streamEnded, invs, missed >>
    /\ UNCHANGED << request, buildResult >>
    /\ UNCHANGED shutdownVars
    /\ UNCHANGED << runnerVars, translateVars >>

\* The send that follows the translation is the same for every variant.
\* The engine of this specification emits one variant of each class: a
\* workflow event that does not end the workflow, one that does, a node
\* event, and logs.
EmitKinds ==
    {<< "Workflow", "Start" >>, << "Workflow", "Succeeded" >>, << "Node", "Running" >>}

ServerNext ==
    \/ \E c \in Calls : \E payload \in Payloads : RunParse(c, payload)
    \/ \E c \in Calls : \E outcome \in {"ok"} \cup BuildErrors : RunBuild(c, outcome)
    \/ \E c \in Calls : RunOnEvent(c) \/ RunOnLog(c) \/ RunStart(c) \/ RunReturn(c)
    \/ \E p \in Pids : \E nid \in NodeIds : \E kind \in EmitKinds : EmitEvent(p, nid, kind)
    \/ \E p \in Pids : \E nid \in NodeIds : EmitLog(p, nid)
    \/ \E i \in 1..MaxInvocations : SendPoll(i) \/ SendResume(i)
    \/ \E p \in Pids : StreamRecv(p) \/ DropStream(p)
    \/ \E pid \in Pids \cup {UnknownPid} : StopWorkflow(pid)

\* The workflow service: RunWorkflow and StopWorkflow calls, the engine's
\* callbacks and the stream consumers
Spec == Init /\ [][ServerNext]_vars

\* The shutdown coordinator: shutdown(), is_terminated() and wait() callers
ShutdownSpec == Init /\ [][ShutdownNext]_vars

\* The shutdown coordinator reused: reset() between waits
ResetSpec == Init /\ [][ResetNext]_vars

\* The same with the scheduling the runtime gives: a thread inside shutdown()
\* goes on to notify_waiters(), and a wait() future that can make a step is
\* polled
ShutdownLive ==
    /\ ShutdownSpec
    /\ \A s \in Signalers : WF_vars(ShutdownNotify(s))
    /\ \A w \in Waiters : WF_vars(WaitStep(w))

\* One valid RunWorkflow call whose engine emits events of all twelve
\* variants, and logs.  With at most MaxKindInvocations invocations the queue
\* always has a free slot, so every send completes at its first poll.
KindsEmitEvent(p, nid, kind) ==
    /\ Len(invs) < MaxKindInvocations
    /\ EmitEvent(p, nid, kind)

KindsEmitLog(p, nid) ==
    /\ Len(invs) < MaxKindInvocations
    /\ EmitLog(p, nid)

KindsNext ==
    \/ \E c \in Calls : RunParse(c, "valid") \/ RunBuild(c, "ok")
    \/ \E c \in Calls : RunOnEvent(c) \/ RunOnLog(c) \/ RunStart(c) \/ RunReturn(c)
    \/ \E p \in Pids : \E nid \in NodeIds : \E kind \in EventKinds :
          KindsEmitEvent(p, nid, kind)
    \/ \E p \in Pids : \E nid \in NodeIds : KindsEmitLog(p, nid)
    \/ \E i \in 1..MaxKindInvocations : SendPoll(i)
    \/ \E p \in Pids : StreamRecv(p) \/ DropStream(p)

KindsSpec == Init /\ [][KindsNext]_vars

\* One valid RunWorkflow call whose engine emits up to MaxBurst items, more
\* than the queue holds.
BurstEvent(p, nid, kind) ==
    /\ procState[p] \in {"running", "stopped"}
    /\ Len(invs) < MaxBurst
    /\ InvokeEvent(p, nid, kind)

BurstLog(p, nid) ==
    /\ procState[p] \in {"running", "stopped"}
    /\ Len(invs) < MaxBurst
    /\ InvokeLog(p, nid)

\* The engine emits logs and the workflow's success, and the consumer holds
\* the stream for good.
DrainNext ==
    \/ \E c \in Calls : RunParse(c, "valid") \/ RunBuild(c, "ok")
    \/ \E c \in Calls : RunOnEvent(c) \/ RunOnLog(c) \/ RunStart(c) \/ RunReturn(c)
    \/ \E p \in Pids : \E nid \in NodeIds : BurstEvent(p, nid, << "Workflow", "Succeeded" >>)
    \/ \E p \in Pids : \E nid \in NodeIds : BurstLog(p, nid)
    \/ \E i \in 1..MaxBurst : SendPoll(i) \/ SendResume(i)
    \/ \E p \in Pids : StreamRecv(p)

DrainSpec == Init /\ [][DrainNext]_vars

\* The scheduling of the runtime: run_workflow runs on to its return, a
\* send future that can make a step is polled, and the consumer goes on
\* polling the stream it holds
DrainLive ==
    /\ DrainSpec
    /\ \A c \in Calls : WF_vars(RunReturn(c))
    /\ \A i \in 1..MaxBurst : WF_vars(SendPoll(i)) /\ WF_vars(SendResume(i))
    /\ \A p \in Pids : WF_vars(StreamRecv(p))

\* The engine emits logs, and the consumer may give the stream up.
BurstNext ==
    \/ \E c \in Calls : RunParse(c, "valid") \/ RunBuild(c, "ok")
    \/ \E c \in Calls : RunOnEvent(c) \/ RunOnLog(c) \/ RunStart(c) \/ RunReturn(c)
    \/ \E p \in Pids : \E nid \in NodeIds : BurstLog(p, nid)
    \/ \E i \in 1..MaxBurst : SendPoll(i) \/ SendResume(i)
    \/ \E p \in Pids : StreamRecv(p) \/ DropStream(p)

BurstSpec == Init /\ [][BurstNext]_vars

\* The same scheduling, for a consumer that polls the stream as long as it
\* holds it
BurstLive ==
    /\ BurstSpec
    /\ \A c \in Calls : WF_vars(RunReturn(c))
    /\ \A i \in 1..MaxBurst : WF_vars(SendPoll(i)) /\ WF_vars(SendResume(i))
    /\ \A p \in Pids : WF_vars(StreamRecv(p))

\* ------------------------------------------------------------------------
\* Two concurrent RunWorkflow calls.  Each call registers its closures on a
\* channel made with ChannelOptions::with_pid(pid) of the process it built,
\* and each closure holds a Sender of the queue of its own call.  The engine
\* hands an item of process q to every registered closure whose channel
\* matches q.  The two registrations of a call are made the same way; the
\* processes of this specification emit logs.
\* ------------------------------------------------------------------------
\* Channels with no pid set: every closure hears every process
ChannelMatchesAny(c, q) == TRUE

ChannelMatches(c, q) == c = q

\* The closures invoked for one item, by ascending call
InvokeAll(heard, source, item) ==
    invs \o [k \in 1..Cardinality(heard) |->
               Invocation(CHOOSE c \in heard : Cardinality({d \in heard : d < c}) = k - 1,
                          source, item)]

PairLog(q, nid) ==
    /\ procState[q] \in {"running", "stopped"}
    /\ Len(invs) < MaxBurst
    /\ LET heard == {c \in PairCalls : logReg[c] /\ ChannelMatches(c, q)}
       IN  IF heard = {}
             THEN /\ missed' = missed + 1
                  /\ UNCHANGED invs
             ELSE /\ invs' = InvokeAll(heard, "log", TranslateLog(EngineLog(q, nid)))
                  /\ UNCHANGED missed
    /\ UNCHANGED << rpc, rpcStatus, procState, builds, chanCreated, evReg,
                    logReg, queue, rxAlive, sendWaiters, delivered,
                    streamEnded, stopCalls, stopResp >>
    /\ UNCHANGED << request, buildResult, stopRequests, stopEngine >>
    /\ UNCHANGED shutdownVars
    /\ UNCHANGED << runnerVars, translateVars >>

PairNext ==
    \/ \E c \in PairCalls : RunParse(c, "valid") \/ RunBuild(c, "ok")
    \/ \E c \in PairCalls : RunOnEvent(c) \/ RunOnLog(c) \/ RunStart(c) \/ RunReturn(c)
    \/ \E q \in PairCalls : \E nid \in NodeIds : PairLog(q, nid)
    \/ \E i \in 1..MaxBurst : SendPoll(i) \/ SendResume(i)
    \/ \E p \in PairCalls : StreamRecv(p) \/ DropStream(p)

\* Two valid RunWorkflow calls at once, their processes and their consumers
PairSpec == Init /\ [][PairNext]_vars

\* ------------------------------------------------------------------------
\* run (src/runner.rs) and start_server (src/server/mod.rs).  run() owns the
\* coordinator: nothing else calls its shutdown().  The server_task future
\* holds the wait() future it gave to serve_with_shutdown as the signal, and
\* select! owns server_task and the ctrl_c() future: when one branch
\* completes, select! drops the other future before run() goes on.
\* ------------------------------------------------------------------------
ServerWaiter == 1
RunSignaler == 1

\* First poll of server_task: start_server resolves the address and the
\* server binds it.  A failure completes the future with Err, and the branch
\* res? returns it from run().
ServerBind(outcome) ==
    /\ runPc = "select"
    /\ serverTask = "created"
    /\ IF outcome = "ok"
         THEN /\ serverTask' = "serving"
              /\ UNCHANGED << runPc, runResult >>
         ELSE /\ serverTask' = "failed"
              /\ runPc' = "returned"
              /\ runResult' = "err"
    /\ UNCHANGED << sigint, inflight >>
    /\ UNCHANGED << shutdownVars, serverVars, translateVars >>

\* The server accepts a request
ServerAccept ==
    /\ runPc = "select"
    /\ serverTask = "serving"
    /\ inflight < MaxRequests
    /\ inflight' = inflight + 1
    /\ UNCHANGED << runPc, serverTask, sigint, runResult >>
    /\ UNCHANGED << shutdownVars, serverVars, translateVars >>

\* A request in service completes
ServerComplete ==
    /\ runPc = "select"
    /\ serverTask \in {"serving", "draining"}
    /\ inflight > 0
    /\ inflight' = inflight - 1
    /\ UNCHANGED << runPc, serverTask, sigint, runResult >>
    /\ UNCHANGED << shutdownVars, serverVars, translateVars >>

\* serve_with_shutdown polls its signal, the wait() future; once the signal
\* has resolved the server stops accepting, and when the requests in service
\* have completed the future completes with Ok and select! takes the branch.
ServerPollSignal ==
    /\ runPc = "select"
    /\ \/ /\ serverTask = "serving"
          /\ WaitStep(ServerWaiter)
       \/ /\ serverTask = "serving"
          /\ waitPc[ServerWaiter] = "done"
          /\ serverTask' = "draining"
          /\ UNCHANGED << runPc, sigint, inflight, runResult >>
          /\ UNCHANGED << shutdownVars, serverVars, translateVars >>
       \/ /\ serverTask = "draining"
          /\ inflight = 0
          /\ serverTask' = "finished"
          /\ runPc' = "after_select"
          /\ UNCHANGED << sigint, inflight, runResult >>
          /\ UNCHANGED << shutdownVars, serverVars, translateVars >>

\* ctrl_c() completes with Ok(()): select! takes the branch and drops
\* server_task, and with it the server and its wait() future (a Notified
\* that was waiting leaves the waiter list when it is dropped).
SigintArrives ==
    /\ runPc = "select"
    /\ sigint = "pending"
    /\ serverTask \in {"created", "serving", "draining"}
    /\ sigint' = "received"
    /\ serverTask' = "dropped"
    /\ notifyWaiters' = notifyWaiters \ {ServerWaiter}
    /\ runPc' = "after_select"
    /\ UNCHANGED << inflight, runResult >>
    /\ UNCHANGED << flag, notifyCalls, waitPc, waitSnap, waitFirst, waitEpoch,
                    waitSubscribed, waitSuspended, waitHow, sigPc, swaps,
                    signals, resets, observed >>
    /\ UNCHANGED << serverVars, translateVars >>

\* ctrl_c() completes with Err: the pattern Ok(()) does not match, the
\* branch is disabled and select! goes on with server_task alone.
SigintFails ==
    /\ runPc = "select"
    /\ sigint = "pending"
    /\ sigint' = "failed"
    /\ UNCHANGED << runPc, serverTask, inflight, runResult >>
    /\ UNCHANGED << shutdownVars, serverVars, translateVars >>

\* shutdown.shutdown() after select!, in its two steps
RunShutdown ==
    /\ runPc = "after_select"
    /\ signals = 0
    /\ IF swaps = 0 THEN ShutdownSwap(RunSignaler) ELSE ShutdownNotify(RunSignaler)

\* Ok(())
RunFinish ==
    /\ runPc = "after_select"
    /\ signals > 0
    /\ runPc' = "returned"
    /\ runResult' = "ok"
    /\ UNCHANGED << serverTask, sigint, inflight >>
    /\ UNCHANGED << shutdownVars, serverVars, translateVars >>

RunnerNext ==
    \/ \E outcome \in {"ok", "err"} : ServerBind(outcome)
    \/ ServerAccept
    \/ ServerComplete
    \/ ServerPollSignal
    \/ SigintArrives
    \/ SigintFails
    \/ RunShutdown
    \/ RunFinish

\* The process from the start of select! in run() to the return of run()
RunnerSpec == Init /\ [][RunnerNext]_vars

\* ------------------------------------------------------------------------
\* The translation alone: a callback is handed an event or a log of any
\* process and node, and builds the wire item (the match of
\* handle_workflow_events, the literal of handle_workflow_logs).
\* ------------------------------------------------------------------------
TrPids == {1, 2}
TrNodeIds == {"n1", "n2"}

\* The variants of workflow_event::Event the bridge builds
WireVariants ==
    {"WorkflowStart", "WorkflowSuccess", "WorkflowFailure", "WorkflowAbort",
     "WorkflowPause", "NodeRunning", "NodeStopped", "NodePaused", "NodeSkipped",
     "NodeSuccess", "NodeError", "NodeRetry", "NodeLog"}

TranslateOneEvent(pid, nid, kind) ==
    /\ Len(translations) < MaxTranslations
    /\ LET event == EngineEvent(pid, nid, kind)
       IN  translations' = Append(translations,
               [source |-> "event", input |-> event, output |-> TranslateEvent(event)])
    /\ UNCHANGED << shutdownVars, serverVars, runnerVars >>

TranslateOneLog(pid, nid) ==
    /\ Len(translations) < MaxTranslations
    /\ LET log == EngineLog(pid, nid)
       IN  translations' = Append(translations,
               [source |-> "log", input |-> log, output |-> TranslateLog(log)])
    /\ UNCHANGED << shutdownVars, serverVars, runnerVars >>

TranslateNext ==
    \/ \E pid \in TrPids : \E nid \in TrNodeIds : \E kind \in EventKinds :
          TranslateOneEvent(pid, nid, kind)
    \/ \E pid \in TrPids : \E nid \in TrNodeIds : TranslateOneLog(pid, nid)

\* The callbacks' translation applied to engine items of every variant
TranslateSpec == Init /\ [][TranslateNext]_vars

\* ========================================================================
\* Claims
\* ========================================================================

\* The items of a stream in the order the consumer gets them: those it has
\* received, then those buffered for it
StreamOrder(p) == delivered[p] \o queue[p]

TerminalPositions(p) ==
    {k \in 1..Len(delivered[p]) : IsTerminalItem(delivered[p][k].item)}

\* C1: exactly-once closure.  The items the consumer of a stream has
\* received hold at most one terminal item (WorkflowSuccess,
\* WorkflowFailure, WorkflowAbort), and that item is the last one: no event
\* or log item is delivered after it.
C1_ExactlyOnceClosure ==
    \A p \in Pids :
        /\ Cardinality(TerminalPositions(p)) <= 1
        /\ \A k \in TerminalPositions(p) : k = Len(delivered[p])

\* C2: after a terminal workflow event has been enqueued the queue is
\* closed, so a consumer that keeps draining observes end-of-stream: once
\* the terminal item has been delivered and nothing is buffered or being
\* sent, the stream has ended or no Sender is left and it can end.
C2_StreamEndsAfterTerminal ==
    \A p \in Pids :
        (TerminalPositions(p) # {} /\ queue[p] = << >> /\ InFlight(p) = {} /\ rxAlive[p])
            => (streamEnded[p] \/ Senders(p) = 0)

\* C4: backpressure safety.  A callback invocation that finds the queue
\* full does not block: no invocation is ever suspended in its send,
\* waiting for a slot.
C4_NeverSuspendedOnFullQueue ==
    \A i \in DOMAIN invs : invs[i].pc \notin {"waiting", "granted"}

\* C5: per-source ordering.  Two event items, or two log items, of one
\* process appear in the stream in the order in which the engine invoked the
\* callback.
C5_InvocationOrder ==
    \A p \in Pids : \A k, l \in 1..Len(StreamOrder(p)) :
        (k < l /\ invs[StreamOrder(p)[k].seq].source = invs[StreamOrder(p)[l].seq].source)
            => StreamOrder(p)[k].seq < StreamOrder(p)[l].seq

\* C6: client disconnection is absorbed.  A callback invocation made after
\* the consumer end was dropped is never suspended, its item is never
\* enqueued, and engine.stop is called for StopWorkflow requests only: a
\* process is stopped only by such a request.
C6_DisconnectAbsorbed ==
    /\ \A i \in DOMAIN invs :
          invs[i].late =>
            /\ invs[i].pc \in {"created", "failed"}
            /\ \A k \in 1..Len(StreamOrder(invs[i].pid)) :
                  StreamOrder(invs[i].pid)[k].seq # i
    /\ stopCalls = stopRequests
    /\ \A p \in Pids : procState[p] = "stopped" => stopRequests > 0

\* A callback invocation made after the drop has failed its send, and the
\* process is still running
C6_Witness ==
    \E i \in DOMAIN invs :
        /\ invs[i].late
        /\ invs[i].pc = "failed"
        /\ procState[invs[i].pid] = "running"

\* C9: a RunWorkflow call with a missing or malformed workflow_model has
\* failed with invalid-argument, and has not called the engine's build,
\* created a channel, registered a callback or started a process.
C9_MalformedRejectedBeforeEngine ==
    \A c \in Calls :
        request[c] \in {"missing", "malformed"} =>
            /\ rpcStatus[c].code = "invalid_argument"
            /\ rpc[c] = "error"
            /\ builds[c] = 0
            /\ ~chanCreated[c]
            /\ ~evReg[c]
            /\ ~logReg[c]
            /\ procState[c] = "none"

C9_Witness ==
    \E c \in Calls : request[c] = "malformed" /\ rpcStatus[c].code = "invalid_argument"

\* C10: a RunWorkflow call whose build the engine refused has failed with
\* an internal status that carries the engine's message, and has registered
\* no callback, started no process and returned no stream.
C10_BuildFailureIsInternal ==
    \A c \in Calls :
        buildResult[c] \in BuildErrors =>
            /\ rpcStatus[c] = [code |-> "internal",
                               message |-> << "Failed to build workflow process: ",
                                              buildResult[c] >>]
            /\ rpc[c] = "error"
            /\ ~evReg[c]
            /\ ~logReg[c]
            /\ ~chanCreated[c]
            /\ procState[c] = "none"

C10_Witness ==
    \E c \in Calls : buildResult[c] = "cyclic graph" /\ rpcStatus[c].code = "internal"

\* C3: shutdown race-freedom.  Wherever shutdown() falls among the steps of
\* the wait() futures, every wait() that has started resolves once
\* shutdown() has been called.
C3_ShutdownRaceFree ==
    \A w \in Waiters : (waitPc[w] # "idle" /\ swaps > 0) ~> (waitPc[w] = "done")

\* One wait() was woken from suspension, another found the flag set at its
\* second check
C3_Witness ==
    \E w1, w2 \in Waiters : waitHow[w1] = "woken" /\ waitHow[w2] = "check2"

\* C7: idempotent signal.  Once a shutdown() call has completed the flag is
\* true and no wait() is left on the waiter list, and a further shutdown()
\* call changes neither the flag, nor the waiter list, nor any wait().
ShutdownStep == swaps' # swaps \/ signals' # signals

C7_IdempotentSignal ==
    /\ [](signals >= 1 => (flag /\ notifyWaiters = {}))
    /\ [][(signals >= 1 /\ ShutdownStep) =>
             (flag' = flag /\ notifyWaiters' = notifyWaiters /\ waitPc' = waitPc)]_vars

\* A second shutdown() call has completed, after a wait() was woken
C7_Witness ==
    signals >= 2 /\ \E w \in Waiters : waitHow[w] = "woken"

\* C8: a wait() whose first check finds the flag true has resolved, without
\* creating a Notified future and without being suspended; a wait() whose
\* first check finds it false resolves only after a shutdown() call made
\* since.
C8_WaitImmediateOrAfterShutdown ==
    \A w \in Waiters :
        /\ (waitPc[w] # "idle" /\ waitFirst[w]) =>
              (waitPc[w] = "done" /\ ~waitSubscribed[w] /\ ~waitSuspended[w])
        /\ (waitPc[w] = "done" /\ ~waitFirst[w]) => swaps > waitEpoch[w]

\* One wait() resolved at its first check, another was suspended and woken
C8_Witness ==
    \E w1, w2 \in Waiters :
        /\ waitHow[w1] = "check1"
        /\ waitHow[w2] = "woken"

\* C11: every StopWorkflow request is answered with a normal response, never
\* with a protocol-level error, whatever the process id: success is true and
\* the error message empty exactly when the engine's stop succeeded, success
\* is false and the message is the engine's error text otherwise; and the
\* engine's stop is called once per request, with no retry.
C11_StopAlwaysAnswers ==
    /\ stopCalls = stopRequests
    /\ stopRequests > 0 =>
          /\ stopResp.code = "ok"
          /\ stopResp.success <=> stopEngine = "ok"
          /\ stopResp.success => stopResp.error_message = ""
          /\ ~stopResp.success => stopResp.error_message = stopEngine

C11_Witness ==
    /\ stopRequests > 0
    /\ stopEngine = "process not found"
    /\ ~stopResp.success

\* C12: with shutdown(), wait() and is_terminated() callers and no reset(),
\* the flag never goes from true to false, and a step that is not the swap
\* of a shutdown() call (a step of wait(), is_terminated(), the notification)
\* leaves the flag as it is.
C12_FlagMonotonic ==
    [][/\ flag => flag'
       /\ swaps' = swaps => flag' = flag]_vars

\* The flag is set, and is_terminated() and a wait() have read it since
C12_Witness ==
    /\ flag
    /\ observed = "true"
    /\ \E w \in Waiters : waitHow[w] = "check1"

\* C13: when the interrupt arrives while the server is serving, run() returns
\* success only after the coordinator was signalled, the server task saw the
\* signal through its wait() and finished draining the requests in service;
\* the server task is not discarded before that.  (The server was serving
\* when the interrupt arrived: it had begun to poll its signal.)
C13_GracefulDrain ==
    (runPc = "returned" /\ sigint = "received" /\ waitPc[ServerWaiter] # "idle") =>
        /\ runResult = "ok"
        /\ signals > 0
        /\ waitPc[ServerWaiter] = "done"
        /\ serverTask = "finished"
        /\ inflight = 0

\* The engine variant of a translated item: the log record is a variant of
\* its own beside the twelve event variants
EngineVariantOf(t) ==
    IF t.source = "log" THEN << "Log", "Log" >>
    ELSE << t.input.family, t.input.variant >>

\* C14: the translation is total and deterministic.  Each of the twelve
\* engine event variants and the log record gives one wire variant, distinct
\* engine variants give distinct wire variants, the wire item carries the
\* process id of the engine item (and its node id, for node-level events and
\* logs), and equal engine items give equal wire items.
C14_TranslationTotal ==
    /\ \A k \in DOMAIN translations :
          LET t == translations[k]
          IN  /\ t.output.variant \in WireVariants
              /\ t.output.process_id = t.input.pid
              /\ (t.source = "log" \/ t.input.family = "Node") =>
                    t.output.node_id = t.input.nid
    /\ \A k, l \in DOMAIN translations :
          LET t == translations[k]
              u == translations[l]
          IN  /\ EngineVariantOf(t) # EngineVariantOf(u) =>
                    t.output.variant # u.output.variant
              /\ (t.source = u.source /\ t.input = u.input) => t.output = u.output

\* A node error of the second process and a log of the second node were
\* translated
C14_Witness ==
    \E k, l \in DOMAIN translations :
        /\ translations[k].output.variant = "NodeError"
        /\ translations[k].output.process_id = 2
        /\ translations[l].output.variant = "NodeLog"
        /\ translations[l].output.node_id = "n2"

\* C15: an input that is not a terminal workflow event (workflow Start or
\* Paused, any node-level event, any log) never closes the stream.  The sink
\* of a stream whose consumer is there and to which no terminal event was
\* sent accepts sends; such an input is refused only once the consumer has
\* abandoned the stream, and once sent it is in the stream, as long as the
\* consumer is there.
C15_NonTerminalKeepsOpen ==
    /\ \A p \in Pids :
          (/\ chanCreated[p]
           /\ rxAlive[p]
           /\ \A i \in DOMAIN invs :
                 (invs[i].pid = p /\ invs[i].pc = "sent") => ~IsTerminalItem(invs[i].item))
          => SendOutcome(p) # "closed"
    /\ \A i \in DOMAIN invs :
          ~IsTerminalItem(invs[i].item) =>
            /\ invs[i].pc = "failed" => ~rxAlive[invs[i].pid]
            /\ (invs[i].pc = "sent" /\ rxAlive[invs[i].pid]) =>
                  \E k \in DOMAIN StreamOrder(invs[i].pid) :
                      StreamOrder(invs[i].pid)[k].seq = i

\* The consumer has received a node's success and the item sent after it,
\* a workflow pause, is buffered for it
C15_Witness ==
    \E p \in Pids :
        /\ rxAlive[p]
        /\ Len(delivered[p]) = 1
        /\ delivered[p][1].item.variant = "NodeSuccess"
        /\ Len(queue[p]) = 1
        /\ queue[p][1].item.variant = "WorkflowPause"

\* C16: in a successful RunWorkflow the event callback and the log callback
\* of the new process are registered before the process is started, so
\* nothing the process emits goes unheard; and once the process is started
\* the call can return the stream at once, whatever has or has not been
\* emitted.
C16_RegisteredBeforeStart ==
    /\ \A c \in Calls :
          /\ procState[c] \in {"running", "stopped"} => (evReg[c] /\ logReg[c])
          /\ rpc[c] = "started" => ENABLED RunReturn(c)
    /\ missed = 0

\* The process has emitted before the call returned, and the callback was
\* invoked
C16_Witness ==
    \E c \in Calls :
        /\ rpc[c] = "started"
        /\ \E i \in DOMAIN invs : invs[i].pid = c
        /\ \A p \in Pids : delivered[p] = << >>

\* C18: the outbound queue is bounded.  In every reachable state the number
\* of items buffered for a stream is at most the capacity its channel was
\* created with (100 in the code, Capacity here).
C18_QueueBounded ==
    \A p \in Pids : Len(queue[p]) <= Capacity

\* The queue is full and a sender is waiting for a slot
C18_Witness ==
    \E p \in Pids :
        /\ Len(queue[p]) = Capacity
        /\ sendWaiters[p] # << >>

\* The callback invocations made before the first terminal event was handed
\* to the event callback (that event's own invocation is one of them)
BeforeTerminal(i) ==
    \A j \in 1..(i - 1) : ~IsTerminalItem(invs[j].item)

Occurrences(p, i) ==
    {k \in DOMAIN StreamOrder(p) : StreamOrder(p)[k].seq = i}

\* C17: no loss and no duplication while the sink is open, for a consumer
\* that keeps draining.  No invocation has two items in the stream; the send
\* of an invocation made before the terminal event is never refused, and once
\* it has completed its item is in the stream exactly once; a completed send
\* stays completed, and from some point on every such invocation that was
\* made has completed its send: each one is eventually enqueued.
C17_NoLossNoDuplication ==
    /\ [](\A p \in Pids : \A i \in DOMAIN invs : Cardinality(Occurrences(p, i)) <= 1)
    /\ [](\A i \in DOMAIN invs :
            (BeforeTerminal(i) /\ rxAlive[invs[i].pid]) =>
               /\ invs[i].pc # "failed"
               /\ invs[i].pc = "sent" => Cardinality(Occurrences(invs[i].pid, i)) = 1)
    /\ [][\A i \in DOMAIN invs : invs[i].pc = "sent" => invs'[i].pc = "sent"]_vars
    /\ <>[](\A i \in DOMAIN invs : BeforeTerminal(i) => invs[i].pc = "sent")

\* More invocations than the queue holds were made, and the consumer has
\* received the item of every one of them
C17_Witness ==
    \E p \in Pids :
        /\ rxAlive[p]
        /\ Len(invs) > Capacity
        /\ Len(delivered[p]) = Len(invs)
        /\ \A i \in DOMAIN invs : invs[i].pc = "sent"

Suspended(i) == i \in DOMAIN invs /\ invs[i].pc \in {"waiting", "granted"}

Completed(i) == i \in DOMAIN invs /\ invs[i].pc \in {"sent", "failed"}

\* C20: a callback invocation suspended in its send because the queue is
\* full is released.  While it waits and the consumer holds the stream it
\* stands in the line of waiting senders behind a full queue, and each item
\* the consumer drains hands the freed slot to the first in that line; a
\* send that was handed a slot completes, with its item enqueued if the
\* consumer still holds the stream; a send waiting when the consumer end is
\* dropped completes with an error and its item is discarded; so no send
\* stays suspended once the consumer has drained for it or has gone.
C20_SuspendedSendReleased ==
    /\ [](\A i \in DOMAIN invs :
            (invs[i].pc = "waiting" /\ rxAlive[invs[i].pid]) =>
               /\ \E k \in DOMAIN sendWaiters[invs[i].pid] : sendWaiters[invs[i].pid][k] = i
               /\ Len(queue[invs[i].pid]) > 0)
    /\ [][\A p \in Pids :
            (Len(delivered'[p]) > Len(delivered[p]) /\ sendWaiters[p] # << >>) =>
               /\ invs'[Head(sendWaiters[p])].pc = "granted"
               /\ sendWaiters'[p] = Tail(sendWaiters[p])]_vars
    /\ [][\A i \in DOMAIN invs :
            (Suspended(i) /\ invs'[i].pc = "sent") =>
               Cardinality(Occurrences(invs[i].pid, i)') = 1]_vars
    /\ [](\A i \in DOMAIN invs :
            invs[i].pc = "failed" =>
               (~rxAlive[invs[i].pid] /\ Occurrences(invs[i].pid, i) = {}))
    /\ \A i \in 1..MaxBurst :
          /\ (i \in DOMAIN invs /\ invs[i].pc = "granted") ~> Completed(i)
          /\ (i \in DOMAIN invs /\ invs[i].pc = "waiting" /\ ~rxAlive[invs[i].pid])
                ~> (i \in DOMAIN invs /\ invs[i].pc = "failed")
          /\ Suspended(i) ~> Completed(i)

\* Two sends were waiting and the consumer drained one item: the first in
\* line has been handed the slot, the second is still waiting
C20_Witness ==
    \E i, j \in DOMAIN invs :
        /\ invs[i].pc = "granted"
        /\ invs[j].pc = "waiting"
        /\ rxAlive[invs[j].pid]

C21_StreamsIsolated ==
    /\ \A p \in PairCalls : \A k \in DOMAIN StreamOrder(p) :
          StreamOrder(p)[k].item.process_id = p
    /\ \A i \in DOMAIN invs :
          LET own == invs[i].pid
          IN  /\ invs[i].item.process_id = own
              /\ invs[i].pc = "failed" => ~rxAlive[own]
              /\ (invs[i].pc = "waiting" /\ rxAlive[own]) => FreeSlots(own) = 0
              /\ \A p \in PairCalls \ {own} : Occurrences(p, i) = {}
              /\ (invs[i].pc = "sent" /\ rxAlive[own]) =>
                    Cardinality(Occurrences(own, i)) = 1

\* The queue of process 1 is full with a send waiting behind it; an item of
\* process 2 emitted after that has been delivered on the stream of
\* process 2
C21_Witness ==
    \E i, j \in DOMAIN invs :
        /\ invs[i].pid = 1
        /\ invs[i].pc = "waiting"
        /\ Len(queue[1]) = Capacity
        /\ i < j
        /\ invs[j].pid = 2
        /\ \E k \in DOMAIN delivered[2] : delivered[2][k].seq = j

====
